---- MODULE Spec2Model ----
(***************************************************************************)
(* Model of the PDF signing view (src/src/pages/PDFSigningView.tsx), its   *)
(* signature dialog (src/src/components/SignatureModal.tsx) and the        *)
(* rendering backend it calls                                              *)
(* (src/supabase/functions/generate-absolute-precision-pdf/index.ts).      *)
(*                                                                         *)
(* Numbers.  Pixel coordinates and sizes are integers.  A value the code   *)
(* obtains by a division is kept as an exact fraction <<num, den>> in      *)
(* lowest terms (den > 0), so two results are equal exactly when the       *)
(* fractions are equal; nothing is rounded unless the code rounds.         *)
(* The zoom factor `scale` is kept in tenths (10 = 100%).                  *)
(* Text is a sequence of one-character strings.  A content that is         *)
(* undefined and a content that is the empty string are both <<>>: the     *)
(* code treats the two alike everywhere (!content, content?.length || 10). *)
(***************************************************************************)
EXTENDS Integers, Sequences, FiniteSets, TLC

\* ------------------------------------------------------------------------
\* Bounds of the model and the inputs the events are drawn from
\* ------------------------------------------------------------------------
MaxFields == 1
MaxEdits == 2
NumPages == 2
MaxTime == 2
MaxZoomOut == 1
MaxZoomIn == 0
MaxCalls == 2
MaxSignings == 2
MaxTextLen == 5
MaxManyFields == 3

FieldTypes == {"signature", "initials", "name", "date", "text", "company"}
Fonts == {"times-roman-italic", "helvetica-bold", "helvetica-oblique",
          "times-roman-bold", "courier-bold", "helvetica"}
FontChoices == {"times-roman-italic", "helvetica"}

NL == "\n"
ClickPts == {<<-5, 50>>, <<0, 50>>, <<100, 200>>, <<590, 590>>}
DragPts == {<<0, 0>>, <<300, 400>>, <<2000, 2000>>}
ResizeSizes == {<<-50, -50>>, <<200, 60>>, <<1000, 1000>>}
RawTexts == {<<" ">>, <<"a">>, <<" ", "a", NL, " ", "b", " ">>}
TodayText == <<"1", "/", "2">>

\* ------------------------------------------------------------------------
\* Program constants
\* ------------------------------------------------------------------------
ScaleMin == 5
ScaleMax == 20
InitialScale == 10
PlacePadding == 10
DragPadding == 5
ResizePadding == 10
MinFieldWidth == 60
MinFieldHeight == 20
TextPadding == 16
DefaultLength == 10
FallbackWidth == 595
FallbackHeight == 842

BackendMarginX == 10
BackendMarginY == 15
BackendRightGap == 50
BackendDefaultSize == 16
FallbackMarginX == 15
FallbackMarginY == 20
FallbackRightGap == 150
FallbackTopGap == 30

NoId == 0
NoMode == "none"
NoFont == "none"
Null == [isNull |-> TRUE]

\* ------------------------------------------------------------------------
\* Arithmetic helpers
\* ------------------------------------------------------------------------
Min(a, b) == IF a <= b THEN a ELSE b
Max(a, b) == IF a >= b THEN a ELSE b
Abs(a) == IF a < 0 THEN -a ELSE a

RECURSIVE Gcd(_, _)
Gcd(a, b) == IF b = 0 THEN a ELSE Gcd(b, a % b)

\* n / d as the code's floating-point division computes it, kept exact.
\* A zero divisor gives what JavaScript gives: NaN or an infinity.
Div(n, d) ==
  IF d = 0 THEN (IF n = 0 THEN <<"NaN">> ELSE <<"Infinity">>)
  ELSE LET s == IF d < 0 THEN -1 ELSE 1
           g == Gcd(Abs(n), Abs(d))
       IN  <<(s * n) \div g, (s * d) \div g>>

IsFinite(q) == Len(q) = 2
Whole(n) == <<n, 1>>
\* a - q for an integer a and a fraction q
SubFrom(a, q) == IF IsFinite(q) THEN Div(a * q[2] - q[1], q[2]) ELSE q

\* Math.round of the positive fraction n / d: the nearest integer, halves up
Round(n, d) == (2 * n + d) \div (2 * d)

\* ------------------------------------------------------------------------
\* Font-size estimate (calculateDynamicFontSize)
\* ------------------------------------------------------------------------
\* The size before the width correction, in hundredths of a pixel.
\* A base size that is the same for every type: max(8, min(height * 0.6, 32))
BaseFontSize100Uniform(height, type) == Max(800, Min(height * 60, 3200))

BaseFontSize100(height, type) ==
  CASE type = "signature" -> Max(1200, Min(height * 70, 3600))
    [] type = "initials"  -> Max(1000, Min(height * 65, 2800))
    [] type = "name"      -> Max(800, Min(height * 60, 2400))
    [] OTHER              -> Max(800, Min(height * 55, 2000))

\* A width fit that takes 8 as the largest size instead of the smallest
WidthFitSizeCapped(width, contentLength) ==
  LET a == 10 * (width - TextPadding)
      b == 6 * contentLength
  IN  IF contentLength = 0 \/ a <= 0 THEN 0
      ELSE IF a >= 8 * b THEN 8 ELSE Round(a, b)

\* Math.round(Math.max(8, (width - 16) / (contentLength * 0.6))).  With a
\* length of 0 the quotient is -Infinity (the branch is entered only when
\* width - 16 < 0), and the maximum is 8.
WidthFitSize(width, contentLength) ==
  LET a == 10 * (width - TextPadding)
      b == 6 * contentLength
  IN  IF contentLength = 0 \/ a <= 8 * b THEN 8 ELSE Round(a, b)

calculateDynamicFontSize(width, height, type, contentLength) ==
  LET base100 == BaseFontSize100(height, type)
      \* contentLength * (base * 0.6) > width - 16
      tooWide == contentLength * base100 * 6 > (width - TextPadding) * 1000
  IN  IF tooWide THEN WidthFitSize(width, contentLength)
      ELSE Round(base100, 100)

\* field.content?.length || 10
LengthOrDefault(content) == IF Len(content) = 0 THEN DefaultLength ELSE Len(content)

\* ------------------------------------------------------------------------
\* Single-line normalisation:
\*   text.replace(/\n/g, ' ').replace(/\s+/g, ' ').trim()
\* ------------------------------------------------------------------------
IsSpace(c) == c \in {" ", NL, "\t"}

ReplaceNewlines(t) == [i \in 1..Len(t) |-> IF t[i] = NL THEN " " ELSE t[i]]

\* replace(/\s\s/g, ' '): every pair of white-space characters becomes a space
RECURSIVE CollapsePairs(_)
CollapsePairs(t) ==
  IF Len(t) = 0 THEN <<>>
  ELSE IF Len(t) > 1 /\ IsSpace(t[1]) /\ IsSpace(t[2])
       THEN <<" ">> \o CollapsePairs(Tail(Tail(t)))
       ELSE <<t[1]>> \o CollapsePairs(Tail(t))

RECURSIVE CollapseSpaces(_)
CollapseSpaces(t) ==
  IF Len(t) = 0 THEN <<>>
  ELSE IF IsSpace(t[1])
       THEN IF Len(t) > 1 /\ IsSpace(t[2]) THEN CollapseSpaces(Tail(t))
            ELSE <<" ">> \o CollapseSpaces(Tail(t))
       ELSE <<t[1]>> \o CollapseSpaces(Tail(t))

RECURSIVE TrimLeft(_)
TrimLeft(t) == IF Len(t) > 0 /\ IsSpace(t[1]) THEN TrimLeft(Tail(t)) ELSE t

RECURSIVE TrimRight(_)
TrimRight(t) ==
  IF Len(t) > 0 /\ IsSpace(t[Len(t)]) THEN TrimRight(SubSeq(t, 1, Len(t) - 1)) ELSE t

Trim(t) == TrimRight(TrimLeft(t))

SingleLine(t) == Trim(CollapseSpaces(ReplaceNewlines(t)))

\* ------------------------------------------------------------------------
\* State
\* ------------------------------------------------------------------------
VARIABLES
  docStatus,            \* document.status as fetched when the view opened
  pdfLoaded,            \* pdfBlob and pdfDocument are set, pdfLoading is false
  canvasReady,          \* the canvas of the current page is in the DOM
  currentPage,
  scale,                \* zoom, in tenths
  signatureFields,      \* the field collection, a sequence of field records
  showSignatureModal,
  selectedField,        \* field the signature dialog fills, or NoId
  selectedFieldForEdit, \* field selected for edit (resize handle), or NoId
  placementMode,        \* a field type, or NoMode
  resizing,             \* field of the resize gesture in progress, or NoId
  edits,                \* how many drag and resize updates were made so far
  finalizing,
  calls,                \* the finalizeDocument calls that were started and not ended
  dbStatus,             \* documents.status in the database
  dbSignings,           \* how many times the stored file was replaced by a signed one
  toast,                \* the last toast shown
  navigated,            \* the view was left for the dashboard
  probe                 \* inputs and results of a function applied on its own

uiVars == <<docStatus, pdfLoaded, canvasReady, currentPage, scale>>
editVars == <<signatureFields, showSignatureModal, selectedField,
              selectedFieldForEdit, placementMode, resizing, edits>>
finVars == <<finalizing, calls, dbStatus, dbSignings, toast, navigated>>
vars == <<uiVars, editVars, finVars, probe>>

\* ------------------------------------------------------------------------
\* The page surface
\* ------------------------------------------------------------------------
\* page.getSize() of pdf-lib: the native size of each page of the document.
\* The document has a full-size first page, and small pages (a label) after it.
PageSize(p) ==
  IF p = 1 THEN [width |-> 600, height |-> 800]
  ELSE [width |-> 180, height |-> 240]

\* getBoundingClientRect() of the canvas react-pdf renders at `scale`
getPdfCanvasBounds ==
  IF ~canvasReady THEN Null
  ELSE [width  |-> (PageSize(currentPage).width * scale) \div 10,
        height |-> (PageSize(currentPage).height * scale) \div 10]

getPdfPageDimensions ==
  IF ~pdfLoaded \/ currentPage < 1 \/ currentPage > NumPages THEN Null
  ELSE PageSize(currentPage)

\* A conversion that takes the page to be rendered at the fallback size
\* whatever the canvas measures.
AbsolutePointFixedCanvas(canvasX, canvasY, canvasWidth, canvasHeight, pdfWidth, pdfHeight) ==
  [x |-> Div(canvasX * pdfWidth, FallbackWidth),
   y |-> SubFrom(pdfHeight, Div(canvasY * pdfHeight, FallbackHeight))]

\* The conversion both convertToAbsoluteCoordinates and finalizeDocument write out:
\*   scaleX = pdfWidth / canvasWidth;  scaleY = pdfHeight / canvasHeight
\*   absoluteX = canvasX * scaleX;     absoluteY = pdfHeight - canvasY * scaleY
AbsolutePoint(canvasX, canvasY, canvasWidth, canvasHeight, pdfWidth, pdfHeight) ==
  [x |-> Div(canvasX * pdfWidth, canvasWidth),
   y |-> SubFrom(pdfHeight, Div(canvasY * pdfHeight, canvasHeight))]

convertToAbsoluteCoordinates(canvasX, canvasY) ==
  LET canvasBounds == getPdfCanvasBounds
      pdfDimensions == getPdfPageDimensions
  IN  IF canvasBounds = Null \/ pdfDimensions = Null
      THEN [absoluteX |-> Whole(canvasX), absoluteY |-> Whole(canvasY),
            canvasWidth |-> 0, canvasHeight |-> 0, pdfWidth |-> 0, pdfHeight |-> 0]
      ELSE LET abs == AbsolutePoint(canvasX, canvasY,
                                    canvasBounds.width, canvasBounds.height,
                                    pdfDimensions.width, pdfDimensions.height)
           IN
           [absoluteX |-> abs.x,
            absoluteY |-> abs.y,
            canvasWidth |-> canvasBounds.width, canvasHeight |-> canvasBounds.height,
            pdfWidth |-> pdfDimensions.width, pdfHeight |-> pdfDimensions.height]

\* ------------------------------------------------------------------------
\* Helpers on the field collection
\* ------------------------------------------------------------------------
Ids(fields) == {fields[i].id : i \in 1..Len(fields)}

\* A map that changes every field of the collection, whatever its id
MapFieldAll(fields, id, changed) == changed

\* fields.map(f => f.id === id ? change(f) : f)
MapField(fields, id, changed) ==
  [i \in 1..Len(fields) |-> IF fields[i].id = id THEN changed[i] ELSE fields[i]]

\* fields.filter(f => f.id !== id)
RECURSIVE FilterOut(_, _)
FilterOut(fields, id) ==
  IF Len(fields) = 0 THEN <<>>
  ELSE IF fields[1].id = id THEN FilterOut(Tail(fields), id)
       ELSE <<fields[1]>> \o FilterOut(Tail(fields), id)

\* fields.find(f => f.id === id): the first field with that id
FindField(fields, id) ==
  LET idx == {i \in 1..Len(fields) : fields[i].id = id}
  IN  IF idx = {} THEN Null
      ELSE fields[CHOOSE i \in idx : \A j \in idx : i <= j]

\* Date.now() read at a placement: never before the readings that gave the
\* ids of the fields still in the collection.
Clock(fields) == {t \in 1..MaxTime : \A i \in Ids(fields) : t >= i}

\* The field's overlay (draggable box, text input, handles) is on screen.
Displayed(f) == pdfLoaded /\ f.page = currentPage

\* No dialog covers the view and no mouse gesture is in progress.
UserCanAct == ~navigated /\ ~showSignatureModal /\ resizing = NoId

DefaultWidth(type) ==
  CASE type = "signature" -> 180
    [] type = "initials"  -> 80
    [] type = "name"      -> 150
    [] OTHER              -> 120

DefaultHeight(type) ==
  CASE type = "signature" -> 50
    [] type = "initials"  -> 35
    [] OTHER              -> 30

\* ------------------------------------------------------------------------
\* Loading, page navigation and zoom
\* ------------------------------------------------------------------------
NoProbe == [fn |-> "none"]

\* The view as it is constructed
InitView ==
  /\ docStatus \in {"pending", "signed"}
  /\ pdfLoaded = FALSE
  /\ canvasReady = FALSE
  /\ currentPage = 1
  /\ scale = InitialScale
  /\ signatureFields = <<>>
  /\ showSignatureModal = FALSE
  /\ selectedField = NoId
  /\ selectedFieldForEdit = NoId
  /\ placementMode = NoMode
  /\ resizing = NoId
  /\ edits = 0
  /\ finalizing = FALSE
  /\ calls = <<>>
  /\ dbStatus = docStatus
  /\ dbSignings = 0
  /\ toast = "none"
  /\ navigated = FALSE

Init == InitView /\ probe = NoProbe

\* fetchPdfBlob succeeded: the blob and the pdf-lib document are set.
FetchPdfBlob ==
  /\ ~navigated /\ ~pdfLoaded
  /\ pdfLoaded' = TRUE
  /\ UNCHANGED <<docStatus, canvasReady, currentPage, scale>>
  /\ UNCHANGED <<editVars, finVars, probe>>

\* react-pdf finished loading the current page and put its canvas in the DOM.
RenderDone ==
  /\ ~navigated /\ pdfLoaded /\ ~canvasReady
  /\ canvasReady' = TRUE
  /\ UNCHANGED <<docStatus, pdfLoaded, currentPage, scale>>
  /\ UNCHANGED <<editVars, finVars, probe>>

\* setCurrentPage(page): the new page's canvas is not there until it is rendered.
SetCurrentPage(page) ==
  /\ UserCanAct /\ page \in 1..NumPages /\ page # currentPage
  /\ currentPage' = page
  /\ canvasReady' = FALSE
  /\ UNCHANGED <<docStatus, pdfLoaded, scale>>
  /\ UNCHANGED <<editVars, finVars, probe>>

\* setScale(Math.min(2, scale + 0.1))
ZoomIn ==
  /\ UserCanAct /\ scale < InitialScale + MaxZoomIn
  /\ scale' = Min(ScaleMax, scale + 1)
  /\ UNCHANGED <<docStatus, pdfLoaded, canvasReady, currentPage>>
  /\ UNCHANGED <<editVars, finVars, probe>>

\* setScale(Math.max(0.5, scale - 0.1))
ZoomOut ==
  /\ UserCanAct /\ scale > InitialScale - MaxZoomOut
  /\ scale' = Max(ScaleMin, scale - 1)
  /\ UNCHANGED <<docStatus, pdfLoaded, canvasReady, currentPage>>
  /\ UNCHANGED <<editVars, finVars, probe>>

\* ------------------------------------------------------------------------
\* Editing the field collection
\* ------------------------------------------------------------------------
\* A toolbar button: setPlacementMode(item.type)
SetPlacementMode(type) ==
  /\ UserCanAct /\ docStatus = "pending" /\ type \in FieldTypes
  /\ placementMode' = type
  /\ UNCHANGED <<signatureFields, showSignatureModal, selectedField,
                 selectedFieldForEdit, resizing, edits>>
  /\ UNCHANGED <<uiVars, finVars, probe>>

\* The Cancel button shown while a placement mode is set
CancelPlacement ==
  /\ UserCanAct /\ placementMode # NoMode
  /\ placementMode' = NoMode
  /\ UNCHANGED <<signatureFields, showSignatureModal, selectedField,
                 selectedFieldForEdit, resizing, edits>>
  /\ UNCHANGED <<uiVars, finVars, probe>>

\* The field handlePdfClick builds for a click at canvas point (canvasX, canvasY)
NewField(id, canvasX, canvasY) ==
  LET canvasBounds == getPdfCanvasBounds
      fieldWidth == DefaultWidth(placementMode)
      fieldHeight == DefaultHeight(placementMode)
      adjustedX == Min(canvasX, canvasBounds.width - fieldWidth - PlacePadding)
      adjustedY == Min(canvasY, canvasBounds.height - fieldHeight - PlacePadding)
      abs == convertToAbsoluteCoordinates(adjustedX, adjustedY)
  IN  [id |-> id,
       type |-> placementMode,
       x |-> Max(0, adjustedX),
       y |-> Max(0, adjustedY),
       page |-> currentPage,
       width |-> fieldWidth,
       height |-> fieldHeight,
       content |-> IF placementMode = "date" THEN TodayText ELSE <<>>,
       font |-> NoFont,
       fontSize |-> calculateDynamicFontSize(fieldWidth, fieldHeight, placementMode,
                                             DefaultLength),
       canvasWidth |-> abs.canvasWidth,
       canvasHeight |-> abs.canvasHeight,
       pdfWidth |-> abs.pdfWidth,
       pdfHeight |-> abs.pdfHeight]

\* A click handler that places the field wherever the click lands
handlePdfClickAnywhere(canvasX, canvasY, now) ==
  /\ UserCanAct /\ pdfLoaded
  /\ now \in Clock(signatureFields)
  /\ IF placementMode = NoMode \/ docStatus = "signed" THEN UNCHANGED editVars
     ELSE IF getPdfCanvasBounds = Null THEN UNCHANGED editVars
     ELSE /\ signatureFields' = Append(signatureFields, NewField(now, canvasX, canvasY))
          /\ IF placementMode \in {"signature", "initials"}
             THEN showSignatureModal' = TRUE /\ selectedField' = now
             ELSE UNCHANGED <<showSignatureModal, selectedField>>
          /\ placementMode' = NoMode
          /\ UNCHANGED <<selectedFieldForEdit, resizing, edits>>
  /\ UNCHANGED <<uiVars, finVars, probe>>

\* A click handler that does not wait for the canvas: with no canvas to measure
\* it places the field at the click, with the empty viewport
\* convertToAbsoluteCoordinates answers with.
handlePdfClickUnready(canvasX, canvasY, now) ==
  /\ UserCanAct /\ pdfLoaded
  /\ now \in Clock(signatureFields)
  /\ IF placementMode = NoMode \/ docStatus = "signed" THEN UNCHANGED editVars
     ELSE IF getPdfCanvasBounds # Null /\
             (\/ canvasX < 0 \/ canvasY < 0
              \/ canvasX > getPdfCanvasBounds.width
              \/ canvasY > getPdfCanvasBounds.height)
          THEN UNCHANGED editVars
     ELSE /\ signatureFields' = Append(signatureFields,
               IF getPdfCanvasBounds # Null THEN NewField(now, canvasX, canvasY)
               ELSE [id |-> now, type |-> placementMode,
                     x |-> Max(0, canvasX), y |-> Max(0, canvasY),
                     page |-> currentPage,
                     width |-> DefaultWidth(placementMode),
                     height |-> DefaultHeight(placementMode),
                     content |-> IF placementMode = "date" THEN TodayText ELSE <<>>,
                     font |-> NoFont,
                     fontSize |-> calculateDynamicFontSize(DefaultWidth(placementMode),
                                    DefaultHeight(placementMode), placementMode,
                                    DefaultLength),
                     canvasWidth |-> 0, canvasHeight |-> 0,
                     pdfWidth |-> 0, pdfHeight |-> 0])
          /\ IF placementMode \in {"signature", "initials"}
             THEN showSignatureModal' = TRUE /\ selectedField' = now
             ELSE UNCHANGED <<showSignatureModal, selectedField>>
          /\ placementMode' = NoMode
          /\ UNCHANGED <<selectedFieldForEdit, resizing, edits>>
  /\ UNCHANGED <<uiVars, finVars, probe>>

\* A click on the page element at (canvasX, canvasY) relative to the canvas,
\* with Date.now() = now.
handlePdfClick(canvasX, canvasY, now) ==
  /\ UserCanAct /\ pdfLoaded
  /\ now \in Clock(signatureFields)
  /\ IF placementMode = NoMode \/ docStatus = "signed" THEN UNCHANGED editVars
     ELSE IF getPdfCanvasBounds = Null THEN UNCHANGED editVars
     ELSE IF \/ canvasX < 0 \/ canvasY < 0
             \/ canvasX > getPdfCanvasBounds.width
             \/ canvasY > getPdfCanvasBounds.height
          THEN UNCHANGED editVars
     ELSE /\ signatureFields' = Append(signatureFields, NewField(now, canvasX, canvasY))
          /\ IF placementMode \in {"signature", "initials"}
             THEN showSignatureModal' = TRUE /\ selectedField' = now
             ELSE UNCHANGED <<showSignatureModal, selectedField>>
          /\ placementMode' = NoMode
          /\ UNCHANGED <<selectedFieldForEdit, resizing, edits>>
  /\ UNCHANGED <<uiVars, finVars, probe>>

ConfirmChange(f, singleLineName, font) ==
  [f EXCEPT !.content = singleLineName,
            !.font = font,
            !.fontSize = calculateDynamicFontSize(f.width, f.height, f.type,
                                                  Len(singleLineName))]

\* The dialog's Confirm button: SignatureModal.handleConfirm, then
\* handleSignatureConfirm(name, font)
handleSignatureConfirm(name, font) ==
  /\ ~navigated /\ showSignatureModal
  /\ Len(Trim(name)) > 0
  /\ IF selectedField = NoId THEN UNCHANGED editVars
     ELSE LET change(f) == ConfirmChange(f, SingleLine(name), font)
          IN  /\ signatureFields' = MapField(signatureFields, selectedField,
                    [i \in 1..Len(signatureFields) |-> change(signatureFields[i])])
              /\ selectedField' = NoId
              /\ showSignatureModal' = FALSE
              /\ UNCHANGED <<selectedFieldForEdit, placementMode, resizing, edits>>
  /\ UNCHANGED <<uiVars, finVars, probe>>

\* The dialog's close button
SignatureModalClose ==
  /\ ~navigated /\ showSignatureModal
  /\ showSignatureModal' = FALSE
  /\ selectedField' = NoId
  /\ UNCHANGED <<signatureFields, selectedFieldForEdit, placementMode, resizing, edits>>
  /\ UNCHANGED <<uiVars, finVars, probe>>

\* The delete button of a field (on its overlay or in the sidebar list).  The
\* signature dialog covers the view for the mouse only: the buttons behind it
\* keep the keyboard focus order, so the button is also pressed while the
\* dialog is open.
removeField(fieldId) ==
  /\ ~navigated /\ resizing = NoId
  /\ docStatus = "pending" /\ fieldId \in Ids(signatureFields)
  /\ signatureFields' = FilterOut(signatureFields, fieldId)
  /\ selectedFieldForEdit' =
       IF selectedFieldForEdit = fieldId THEN NoId ELSE selectedFieldForEdit
  /\ UNCHANGED <<showSignatureModal, selectedField, placementMode, resizing, edits>>
  /\ UNCHANGED <<uiVars, finVars, probe>>

\* A click on a field (overlay or sidebar entry) toggles the edit selection.
SelectFieldForEdit(fieldId) ==
  /\ UserCanAct /\ fieldId \in Ids(signatureFields)
  /\ selectedFieldForEdit' = IF selectedFieldForEdit = fieldId THEN NoId ELSE fieldId
  /\ UNCHANGED <<signatureFields, showSignatureModal, selectedField,
                 placementMode, resizing, edits>>
  /\ UNCHANGED <<uiVars, finVars, probe>>

ContentChange(f, singleLineContent) ==
  [f EXCEPT !.content = singleLineContent,
            !.fontSize = calculateDynamicFontSize(f.width, f.height, f.type,
                                                  Len(singleLineContent))]

\* onChange of the text input, which is rendered for a text field with no content
updateFieldContent(fieldId, content) ==
  /\ UserCanAct
  /\ \E i \in 1..Len(signatureFields) :
       /\ signatureFields[i].id = fieldId
       /\ Displayed(signatureFields[i])
       /\ signatureFields[i].type = "text"
       /\ Len(signatureFields[i].content) = 0
  /\ LET change(f) == ContentChange(f, SingleLine(content))
     IN  signatureFields' = MapField(signatureFields, fieldId,
                    [i \in 1..Len(signatureFields) |-> change(signatureFields[i])])
  /\ UNCHANGED <<showSignatureModal, selectedField, selectedFieldForEdit,
                 placementMode, resizing, edits>>
  /\ UNCHANGED <<uiVars, finVars, probe>>

DragChange(f, boundedX, boundedY, canvasBounds) ==
  [f EXCEPT !.x = boundedX, !.y = boundedY,
            !.canvasWidth = canvasBounds.width,
            !.canvasHeight = canvasBounds.height]

\* Draggable onStop for a displayed field, dropped at (dataX, dataY)
handleFieldDrag(fieldId, dataX, dataY) ==
  /\ UserCanAct /\ docStatus = "pending"
  /\ \E i \in 1..Len(signatureFields) :
       signatureFields[i].id = fieldId /\ Displayed(signatureFields[i])
  /\ LET canvasBounds == getPdfCanvasBounds
         field == FindField(signatureFields, fieldId)
     IN  IF canvasBounds = Null \/ field = Null THEN UNCHANGED signatureFields
         ELSE LET boundedX == Max(0, Min(dataX, canvasBounds.width - field.width - DragPadding))
                  boundedY == Max(0, Min(dataY, canvasBounds.height - field.height - DragPadding))
                  change(f) == DragChange(f, boundedX, boundedY, canvasBounds)
              IN  signatureFields' = MapField(signatureFields, fieldId,
                    [i \in 1..Len(signatureFields) |-> change(signatureFields[i])])
  /\ edits' = edits + 1
  /\ UNCHANGED <<showSignatureModal, selectedField, selectedFieldForEdit,
                 placementMode, resizing>>
  /\ UNCHANGED <<uiVars, finVars, probe>>

ResizeChange(f, newWidth, newHeight, canvasBounds) ==
  LET maxWidth == canvasBounds.width - f.x - ResizePadding
      maxHeight == canvasBounds.height - f.y - ResizePadding
      finalWidth == Min(Max(MinFieldWidth, newWidth), maxWidth)
      finalHeight == Min(Max(MinFieldHeight, newHeight), maxHeight)
  IN  [f EXCEPT !.width = finalWidth,
                !.height = finalHeight,
                !.fontSize = calculateDynamicFontSize(finalWidth, finalHeight, f.type,
                                                      LengthOrDefault(f.content))]

handleFieldResize(fieldId, newWidth, newHeight) ==
  LET canvasBounds == getPdfCanvasBounds
  IN  IF canvasBounds = Null THEN signatureFields
      ELSE LET change(f) == ResizeChange(f, newWidth, newHeight, canvasBounds)
           IN  MapField(signatureFields, fieldId,
                    [i \in 1..Len(signatureFields) |-> change(signatureFields[i])])

\* mousedown on the resize handle of the field selected for edit
ResizeMouseDown(fieldId) ==
  /\ UserCanAct /\ docStatus = "pending"
  /\ selectedFieldForEdit = fieldId
  /\ \E i \in 1..Len(signatureFields) :
       signatureFields[i].id = fieldId /\ Displayed(signatureFields[i])
  /\ resizing' = fieldId
  /\ UNCHANGED <<signatureFields, showSignatureModal, selectedField,
                 selectedFieldForEdit, placementMode, edits>>
  /\ UNCHANGED <<uiVars, finVars, probe>>

\* mousemove during the gesture: handleFieldResize(field.id, startWidth + deltaX,
\* startHeight + deltaY); the deltas are any numbers, so are the sums.
ResizeMouseMove(newWidth, newHeight) ==
  /\ ~navigated /\ resizing # NoId
  /\ signatureFields' = handleFieldResize(resizing, newWidth, newHeight)
  /\ edits' = edits + 1
  /\ UNCHANGED <<showSignatureModal, selectedField, selectedFieldForEdit,
                 placementMode, resizing>>
  /\ UNCHANGED <<uiVars, finVars, probe>>

ResizeMouseUp ==
  /\ ~navigated /\ resizing # NoId
  /\ resizing' = NoId
  /\ UNCHANGED <<signatureFields, showSignatureModal, selectedField,
                 selectedFieldForEdit, placementMode, edits>>
  /\ UNCHANGED <<uiVars, finVars, probe>>

\* ------------------------------------------------------------------------
\* Finalization: finalizeDocument and the rendering backend
\* ------------------------------------------------------------------------
\* A call of finalizeDocument is a record
\*   pc       : "session" (awaiting getSession), "fetch" (awaiting the backend),
\*              "inserts" (awaiting the signature rows), "done" (succeeded)
\*   captured : the signatureFields the call closed over when it started
\*   net      : the HTTP exchange: stage "none", "request" (sent, not handled),
\*              "response" (answered, not received) or "received"
NoExchange == [stage |-> "none"]

\* a || b || c on numbers: the first that is not 0 (or undefined, here 0)
Or3(a, b, c) == IF a # 0 THEN a ELSE IF b # 0 THEN b ELSE c

LiveCanvasWidth == IF getPdfCanvasBounds = Null THEN 0 ELSE getPdfCanvasBounds.width
LiveCanvasHeight == IF getPdfCanvasBounds = Null THEN 0 ELSE getPdfCanvasBounds.height
LivePdfWidth == IF getPdfPageDimensions = Null THEN 0 ELSE getPdfPageDimensions.width
LivePdfHeight == IF getPdfPageDimensions = Null THEN 0 ELSE getPdfPageDimensions.height

\* An entry computed with the canvas as it measures now, whatever the field stored
AnnotationLiveCanvas(field) ==
  LET canvasWidth == Or3(LiveCanvasWidth, field.canvasWidth, FallbackWidth)
      canvasHeight == Or3(LiveCanvasHeight, field.canvasHeight, FallbackHeight)
      pdfWidth == Or3(field.pdfWidth, LivePdfWidth, FallbackWidth)
      pdfHeight == Or3(field.pdfHeight, LivePdfHeight, FallbackHeight)
  IN  [page |-> field.page,
       x |-> Div(field.x * pdfWidth, canvasWidth),
       y |-> SubFrom(pdfHeight, Div(field.y * pdfHeight, canvasHeight)),
       width |-> field.width,
       height |-> field.height,
       type |-> field.type,
       content |-> field.content,
       font |-> field.font,
       fontSize |-> field.fontSize]

\* An entry whose font size is estimated again, for a content of nominal length
AnnotationRecomputed(field) ==
  LET canvasWidth == Or3(field.canvasWidth, LiveCanvasWidth, FallbackWidth)
      canvasHeight == Or3(field.canvasHeight, LiveCanvasHeight, FallbackHeight)
      pdfWidth == Or3(field.pdfWidth, LivePdfWidth, FallbackWidth)
      pdfHeight == Or3(field.pdfHeight, LivePdfHeight, FallbackHeight)
  IN  [page |-> field.page,
       x |-> Div(field.x * pdfWidth, canvasWidth),
       y |-> SubFrom(pdfHeight, Div(field.y * pdfHeight, canvasHeight)),
       width |-> field.width,
       height |-> field.height,
       type |-> field.type,
       content |-> field.content,
       font |-> field.font,
       fontSize |-> calculateDynamicFontSize(field.width, field.height, field.type,
                                             DefaultLength)]

\* A viewport resolution with no last resort: the stored value, else the live one
EffectiveViewportNoDefault(field) ==
  [canvasWidth |-> Or3(field.canvasWidth, LiveCanvasWidth, 0),
   canvasHeight |-> Or3(field.canvasHeight, LiveCanvasHeight, 0),
   pdfWidth |-> Or3(field.pdfWidth, LivePdfWidth, 0),
   pdfHeight |-> Or3(field.pdfHeight, LivePdfHeight, 0)]

\* The viewport finalizeDocument converts a field with:
\*   field.canvasWidth || getPdfCanvasBounds()?.width || 595, and so on
EffectiveViewport(field) ==
  [canvasWidth |-> Or3(field.canvasWidth, LiveCanvasWidth, FallbackWidth),
   canvasHeight |-> Or3(field.canvasHeight, LiveCanvasHeight, FallbackHeight),
   pdfWidth |-> Or3(field.pdfWidth, LivePdfWidth, FallbackWidth),
   pdfHeight |-> Or3(field.pdfHeight, LivePdfHeight, FallbackHeight)]

\* One entry of the `signatures` array sent to the backend
Annotation(field) ==
  LET v == EffectiveViewport(field)
      abs == AbsolutePoint(field.x, field.y, v.canvasWidth, v.canvasHeight,
                           v.pdfWidth, v.pdfHeight)
  IN  [page |-> field.page,
       x |-> abs.x,
       y |-> abs.y,
       width |-> field.width,
       height |-> field.height,
       type |-> field.type,
       content |-> field.content,
       font |-> field.font,
       fontSize |-> field.fontSize]

Signatures(fields) == [i \in 1..Len(fields) |-> Annotation(fields[i])]

Incomplete(field) == Len(field.content) = 0 \/ Len(Trim(field.content)) = 0

\* A Sign button that stays enabled while a call is running
SignButtonEnabledWhileFinalizing ==
  docStatus = "pending" /\ Len(signatureFields) # 0

\* The Sign button is rendered for a pending document and is
\* disabled={signatureFields.length === 0 || finalizing}
SignButtonEnabled ==
  docStatus = "pending" /\ ~(Len(signatureFields) = 0 \/ finalizing)

\* A finalizeDocument that does not look at the fields' content
finalizeDocumentUnchecked ==
  /\ IF Len(signatureFields) = 0
     THEN toast' = "add_one" /\ UNCHANGED <<finalizing, calls>>
     ELSE /\ finalizing' = TRUE
          /\ calls' = Append(calls, [pc |-> "session", captured |-> signatureFields,
                                     net |-> NoExchange])
          /\ UNCHANGED toast
  /\ UNCHANGED <<dbStatus, dbSignings, navigated>>
  /\ UNCHANGED <<uiVars, editVars, probe>>

\* finalizeDocument up to its first await
finalizeDocument ==
  /\ IF Len(signatureFields) = 0
     THEN toast' = "add_one" /\ UNCHANGED <<finalizing, calls>>
     ELSE IF \E i \in 1..Len(signatureFields) : Incomplete(signatureFields[i])
     THEN toast' = "complete_all" /\ UNCHANGED <<finalizing, calls>>
     ELSE /\ finalizing' = TRUE
          /\ calls' = Append(calls, [pc |-> "session", captured |-> signatureFields,
                                     net |-> NoExchange])
          /\ UNCHANGED toast
  /\ UNCHANGED <<dbStatus, dbSignings, navigated>>
  /\ UNCHANGED <<uiVars, editVars, probe>>

SignButtonClick == UserCanAct /\ SignButtonEnabled /\ finalizeDocument

RemoveAt(seq, i) == SubSeq(seq, 1, i - 1) \o SubSeq(seq, i + 1, Len(seq))

\* catch: toast.error; finally: setFinalizing(false)
CallFails(i) ==
  /\ toast' = "failed"
  /\ finalizing' = FALSE
  /\ calls' = RemoveAt(calls, i)

\* getSession() answered with a session: the signatures are built and posted
SessionOk(i) ==
  /\ i \in 1..Len(calls) /\ calls[i].pc = "session"
  /\ calls' = [calls EXCEPT ![i].pc = "fetch",
                            ![i].net = [stage |-> "request",
                                        signatures |-> Signatures(calls[i].captured)]]
  /\ UNCHANGED <<finalizing, dbStatus, dbSignings, toast, navigated>>
  /\ UNCHANGED <<uiVars, editVars, probe>>

\* getSession() gave an error or no session
SessionError(i) ==
  /\ i \in 1..Len(calls) /\ calls[i].pc = "session"
  /\ CallFails(i)
  /\ UNCHANGED <<dbStatus, dbSignings, navigated>>
  /\ UNCHANGED <<uiVars, editVars, probe>>

\* The backend handler runs to its end: signed file uploaded, document row
\* updated to status 'signed' with the new file, 200 {success: true, signedFileUrl}
BackendSigns(i) ==
  /\ i \in 1..Len(calls) /\ calls[i].net.stage = "request"
  /\ dbStatus' = "signed"
  /\ dbSignings' = dbSignings + 1
  /\ calls' = [calls EXCEPT ![i].net = [stage |-> "response", ok |-> TRUE,
                                        body |-> "success"]]
  /\ UNCHANGED <<finalizing, toast, navigated>>
  /\ UNCHANGED <<uiVars, editVars, probe>>

\* The backend handler gives up before the upload: 401, 404 or 500
BackendRejects(i) ==
  /\ i \in 1..Len(calls) /\ calls[i].net.stage = "request"
  /\ calls' = [calls EXCEPT ![i].net = [stage |-> "response", ok |-> FALSE,
                                        body |-> "error"]]
  /\ UNCHANGED <<finalizing, dbStatus, dbSignings, toast, navigated>>
  /\ UNCHANGED <<uiVars, editVars, probe>>

\* An answer the handler did not write (the platform in front of it, a proxy):
\* any status, with a JSON body of another shape or a body that is not JSON
ReplyBodies == {"other", "malformed"}

GatewayReplies(i, ok, body) ==
  /\ i \in 1..Len(calls) /\ calls[i].net.stage = "request"
  /\ ok \in BOOLEAN /\ body \in ReplyBodies
  /\ calls' = [calls EXCEPT ![i].net = [stage |-> "response", ok |-> ok, body |-> body]]
  /\ UNCHANGED <<finalizing, dbStatus, dbSignings, toast, navigated>>
  /\ UNCHANGED <<uiVars, editVars, probe>>

\* fetch rejects: the request or the answer is lost on the way
NetworkError(i) ==
  /\ i \in 1..Len(calls) /\ calls[i].pc = "fetch"
  /\ calls[i].net.stage \in {"request", "response"}
  /\ CallFails(i)
  /\ UNCHANGED <<dbStatus, dbSignings, navigated>>
  /\ UNCHANGED <<uiVars, editVars, probe>>

\* The answer arrives: if (!response.ok) throw; result = await response.json()
ResponseArrives(i) ==
  /\ i \in 1..Len(calls) /\ calls[i].pc = "fetch" /\ calls[i].net.stage = "response"
  /\ IF ~calls[i].net.ok \/ calls[i].net.body = "malformed"
     THEN CallFails(i)
     ELSE /\ calls' = [calls EXCEPT ![i].pc = "inserts", ![i].net.stage = "received"]
          /\ UNCHANGED <<finalizing, toast>>
  /\ UNCHANGED <<dbStatus, dbSignings, navigated>>
  /\ UNCHANGED <<uiVars, editVars, probe>>

\* The signature rows are inserted: toast.success, navigate('/dashboard'),
\* finally setFinalizing(false)
InsertsDone(i) ==
  /\ i \in 1..Len(calls) /\ calls[i].pc = "inserts"
  /\ toast' = "success"
  /\ navigated' = TRUE
  /\ finalizing' = FALSE
  /\ calls' = [calls EXCEPT ![i].pc = "done"]
  /\ UNCHANGED <<dbStatus, dbSignings>>
  /\ UNCHANGED <<uiVars, editVars, probe>>

\* ------------------------------------------------------------------------
\* The program
\* ------------------------------------------------------------------------
\* The events, grouped.  The inputs of the editing events are drawn from the
\* sets of the record `in`; the exploration is cut at in.fields fields,
\* MaxEdits drag and resize updates, MaxCalls calls and MaxSignings signings.

\* the document and the page surface become available
LoadNext ==
  \/ FetchPdfBlob
  \/ RenderDone

\* page navigation and zoom
ViewNext ==
  \/ \E page \in 1..NumPages : SetCurrentPage(page)
  \/ ZoomIn
  \/ ZoomOut

\* placing and removing fields
PlaceNext(in) ==
  \/ \E type \in in.types : SetPlacementMode(type)
  \/ CancelPlacement
  \/ \E pt \in in.clicks, now \in 1..MaxTime :
       Len(signatureFields) < in.fields /\ handlePdfClick(pt[1], pt[2], now)
  \/ \E id \in 1..MaxTime : removeField(id)

\* giving a field its content: the signature dialog and the text input
FillNext(in) ==
  \/ \E name \in in.texts, font \in in.fonts : handleSignatureConfirm(name, font)
  \/ SignatureModalClose
  \/ \E id \in 1..MaxTime, content \in in.texts : updateFieldContent(id, content)

\* dragging a field
DragNext(in) ==
  \E id \in 1..MaxTime, pt \in in.drags :
    edits < MaxEdits /\ handleFieldDrag(id, pt[1], pt[2])

\* selecting a field for edit and resizing it
ResizeNext(in) ==
  \/ \E id \in 1..MaxTime : SelectFieldForEdit(id)
  \/ \E id \in 1..MaxTime : ResizeMouseDown(id)
  \/ \E size \in in.sizes :
       edits < MaxEdits /\ ResizeMouseMove(size[1], size[2])
  \/ ResizeMouseUp

\* the Sign button and a call of finalizeDocument up to its request
StartNext ==
  \/ Len(calls) < MaxCalls /\ SignButtonClick
  \/ \E i \in 1..MaxCalls : SessionOk(i)
  \/ \E i \in 1..MaxCalls : SessionError(i)
  \/ \E i \in 1..MaxCalls : NetworkError(i)

\* the backend's answer and the rest of the call
ReplyNext ==
  \/ \E i \in 1..MaxCalls : dbSignings < MaxSignings /\ BackendSigns(i)
  \/ \E i \in 1..MaxCalls : BackendRejects(i)
  \/ \E i \in 1..MaxCalls, ok \in BOOLEAN, body \in ReplyBodies : GatewayReplies(i, ok, body)
  \/ \E i \in 1..MaxCalls : ResponseArrives(i)
  \/ \E i \in 1..MaxCalls : InsertsDone(i)

\* Inputs with one value on each side of what the handlers distinguish
Inputs ==
  [types |-> {"signature", "text"},
   clicks |-> {<<-5, 50>>, <<100, 200>>},
   drags |-> {<<300, 400>>},
   sizes |-> {<<200, 60>>},
   texts |-> {<<" ">>, <<" ", "a", NL, " ", "b", " ">>},
   fonts |-> {"helvetica"},
   fields |-> MaxFields]

\* Inputs on both sides of every clamp, for every field type
EditInputs ==
  [types |-> FieldTypes,
   clicks |-> ClickPts,
   drags |-> DragPts,
   sizes |-> ResizeSizes,
   texts |-> RawTexts,
   fonts |-> FontChoices,
   fields |-> MaxFields]

\* Inputs that place date fields only (complete as soon as they are placed)
DateInputs ==
  [types |-> {"date"},
   clicks |-> {<<-5, 50>>, <<100, 200>>, <<590, 590>>, <<590, 790>>},
   drags |-> {<<300, 400>>, <<2000, 2000>>},
   sizes |-> {<<200, 60>>},
   texts |-> {},
   fonts |-> {},
   fields |-> MaxFields]

\* The whole program
Next ==
  \/ LoadNext \/ ViewNext
  \/ PlaceNext(Inputs) \/ FillNext(Inputs) \/ DragNext(Inputs) \/ ResizeNext(Inputs)
  \/ StartNext \/ ReplyNext

Spec == Init /\ [][Next]_vars

\* The editing session: every event but the Sign button.  The events left out
\* are those that start or continue a finalizeDocument call; none of them
\* changes a field, a selection, the page or the zoom.
NextEdit ==
  \/ LoadNext \/ ViewNext
  \/ PlaceNext(EditInputs) \/ FillNext(EditInputs)
  \/ DragNext(EditInputs) \/ ResizeNext(EditInputs)

SpecEdit == Init /\ [][NextEdit]_vars

\* The signing session: placing, filling, dragging and removing fields, the
\* Sign button, the calls and the backend.  The events left out (page
\* navigation, zoom, resize) change neither `finalizing`, the calls, the
\* database nor which fields are complete.
NextSign ==
  \/ LoadNext
  \/ PlaceNext(Inputs) \/ FillNext(Inputs) \/ DragNext(Inputs)
  \/ StartNext \/ ReplyNext

SpecSign == Init /\ [][NextSign]_vars

\* What is sent: date fields placed, dragged and resized at any zoom and on
\* any page, and every call up to its request (a call ends there by a
\* failure, so that another can be started).  The events left out fill the
\* content of a field or answer a request; none of them changes a position,
\* a stored viewport, the page or the zoom.
NextEmit ==
  \/ LoadNext \/ ViewNext
  \/ PlaceNext(DateInputs) \/ DragNext(DateInputs) \/ ResizeNext(DateInputs)
  \/ StartNext

SpecEmit == Init /\ [][NextEmit]_vars

\* Placing fields and giving them content, on any page and at any zoom
NextPlace ==
  \/ LoadNext
  \/ ViewNext
  \/ PlaceNext(EditInputs)
  \/ FillNext(EditInputs)

SpecPlace == Init /\ [][NextPlace]_vars

\* Inputs for a collection of several fields: one value for each event
ManyInputs ==
  [types |-> {"signature", "date", "text"},
   clicks |-> {<<100, 200>>},
   drags |-> {<<300, 400>>},
   sizes |-> {<<200, 60>>},
   texts |-> {<<"a">>},
   fonts |-> {"helvetica"},
   fields |-> MaxManyFields]

\* Several fields on the first page at 100%: placing, removing, filling,
\* dragging and resizing them.  The events left out change the page or the
\* zoom, or start and continue a finalizeDocument call.
NextMany ==
  \/ LoadNext
  \/ PlaceNext(ManyInputs) \/ FillNext(ManyInputs)
  \/ DragNext(ManyInputs) \/ ResizeNext(ManyInputs)

SpecMany == Init /\ [][NextMany]_vars

\* Inputs of a user who places one field of any type and fills it
CompleteInputs ==
  [types |-> FieldTypes,
   clicks |-> {<<100, 200>>},
   drags |-> {},
   sizes |-> {},
   texts |-> {<<" ">>, <<"a">>},
   fonts |-> {"helvetica"},
   fields |-> MaxFields]

\* A user who wants every field complete: fields are placed on any page and
\* given content, and no field is removed.
NextComplete ==
  \/ LoadNext
  \/ \E page \in 1..NumPages : SetCurrentPage(page)
  \/ \E type \in CompleteInputs.types : SetPlacementMode(type)
  \/ \E pt \in CompleteInputs.clicks, now \in 1..MaxTime :
       Len(signatureFields) < CompleteInputs.fields /\ handlePdfClick(pt[1], pt[2], now)
  \/ FillNext(CompleteInputs)

\* What the user and the page do as often as they can: the document loads and
\* the page is rendered, the user turns to each page, confirms the dialog with
\* a name and types a letter into a text input.
FairComplete ==
  /\ WF_vars(FetchPdfBlob)
  /\ WF_vars(RenderDone)
  /\ \A page \in 1..NumPages : SF_vars(SetCurrentPage(page))
  /\ SF_vars(handleSignatureConfirm(<<"a">>, "helvetica"))
  /\ \A id \in 1..MaxTime : SF_vars(updateFieldContent(id, <<"a">>))

SpecComplete == Init /\ [][NextComplete]_vars /\ FairComplete

\* ------------------------------------------------------------------------
\* The coordinate transform applied on its own
\* ------------------------------------------------------------------------
ProbePoints == {<<0, 0>>, <<100, 200>>, <<250, 400>>, <<590, 790>>}
\* rendered width, rendered height, native width, native height
ProbeViewports == {<<600, 800, 600, 800>>, <<540, 720, 600, 800>>,
                   <<600, 800, 595, 842>>, <<1200, 1600, 595, 842>>}
\* zoom factors, in tenths
ProbeFactors == {5, 9, 10, 15, 20}

InitTransform ==
  /\ InitView
  /\ \E pt \in ProbePoints, v \in ProbeViewports, k \in ProbeFactors :
       probe = [fn |-> "transform", px |-> pt[1], py |-> pt[2],
                canvasWidth |-> v[1], canvasHeight |-> v[2],
                pdfWidth |-> v[3], pdfHeight |-> v[4],
                k |-> k, done |-> FALSE, plain |-> Null, zoomed |-> Null]

\* The point is converted as it is, and again with the point and the rendered
\* size multiplied by k / 10.
ApplyTransform ==
  /\ probe.fn = "transform" /\ ~probe.done
  /\ probe' = [probe EXCEPT
       !.done = TRUE,
       !.plain = AbsolutePoint(probe.px, probe.py, probe.canvasWidth, probe.canvasHeight,
                               probe.pdfWidth, probe.pdfHeight),
       !.zoomed = AbsolutePoint((probe.k * probe.px) \div 10, (probe.k * probe.py) \div 10,
                                (probe.k * probe.canvasWidth) \div 10,
                                (probe.k * probe.canvasHeight) \div 10,
                                probe.pdfWidth, probe.pdfHeight)]
  /\ UNCHANGED <<uiVars, editVars, finVars>>

NextTransform == ApplyTransform

SpecTransform == InitTransform /\ [][NextTransform]_vars

\* ------------------------------------------------------------------------
\* The conversion of a field at finalization applied on its own
\* ------------------------------------------------------------------------
\* The signatures.map callback of finalizeDocument is applied to a field
\* record of the SignatureField type, whose four viewport members are
\* optional, while the document loads and the user turns pages and zooms.
\* stored rendered width and height, stored native width and height
ProbeSnapshots == {<<0, 0, 0, 0>>, <<600, 800, 600, 800>>, <<540, 720, 600, 800>>,
                   <<180, 240, 180, 240>>, <<0, 0, 600, 800>>, <<600, 800, 0, 0>>}
ProbeFieldPts == {<<0, 0>>, <<100, 200>>}

ProbeField(page, pt, snap) ==
  [id |-> 1, type |-> "date", x |-> pt[1], y |-> pt[2], page |-> page,
   width |-> DefaultWidth("date"), height |-> DefaultHeight("date"),
   content |-> TodayText, font |-> NoFont,
   fontSize |-> calculateDynamicFontSize(DefaultWidth("date"), DefaultHeight("date"),
                                         "date", DefaultLength),
   canvasWidth |-> snap[1], canvasHeight |-> snap[2],
   pdfWidth |-> snap[3], pdfHeight |-> snap[4]]

InitAnnotate ==
  /\ InitView
  /\ \E page \in 1..NumPages, pt \in ProbeFieldPts, snap \in ProbeSnapshots :
       probe = [fn |-> "annotate", field |-> ProbeField(page, pt, snap),
                done |-> FALSE, viewport |-> Null, out |-> Null]

\* The callback runs on the field, with the page and the canvas as they are now.
ApplyAnnotation ==
  /\ probe.fn = "annotate" /\ ~probe.done
  /\ probe' = [probe EXCEPT
       !.done = TRUE,
       !.viewport = EffectiveViewport(probe.field),
       !.out = Annotation(probe.field)]
  /\ UNCHANGED <<uiVars, editVars, finVars>>

NextAnnotate ==
  \/ LoadNext
  \/ ViewNext
  \/ ApplyAnnotation

SpecAnnotate == InitAnnotate /\ [][NextAnnotate]_vars

\* ------------------------------------------------------------------------
\* The rendering backend's drawing of one entry, applied on its own
\* ------------------------------------------------------------------------
\* signature.fontSize || 16
BackendFontSize(fontSize) == IF fontSize # 0 THEN fontSize ELSE BackendDefaultSize

\* The page.drawText call of the signature loop for an entry received with
\* (x, y) and fontSize, on a page of the given size, for a text that
\* font.widthOfTextAtSize measures textWidth wide.  `threw` tells that a call
\* of the try block threw before the text was drawn: the catch block draws it.
DrawText(x, y, fontSize, textWidth, pageWidth, pageHeight, threw) ==
  IF ~threw
  THEN LET finalX == Max(BackendMarginX, Min(x, pageWidth - BackendRightGap))
           finalY == Max(BackendMarginY, Min(y, pageHeight - BackendMarginY))
           adjustedX == Min(finalX, pageWidth - textWidth - BackendMarginX)
       IN  [x |-> adjustedX, y |-> finalY, size |-> BackendFontSize(fontSize)]
  ELSE [x |-> Max(FallbackMarginX, Min(x, pageWidth - FallbackRightGap)),
        y |-> Max(FallbackMarginY, Min(y, pageHeight - FallbackTopGap)),
        size |-> BackendFontSize(fontSize)]

\* received x and y, on both sides of every clamp
ProbeDrawXs == {-20, 0, 100, 560, 700}
ProbeDrawYs == {-5, 10, 400, 795, 900}
\* text widths: none, short, long, and wider than the page
ProbeTextWidths == {0, 30, 100, 590, 700}
ProbePages == {<<600, 800>>, <<180, 240>>}
\* font sizes received; 0 stands for a fontSize that is absent
ProbeFontSizes == {0, 8, 16, 36}

InitDraw ==
  /\ InitView
  /\ \E x \in ProbeDrawXs, y \in ProbeDrawYs, w \in ProbeTextWidths,
        pg \in ProbePages, fs \in ProbeFontSizes, threw \in BOOLEAN :
       probe = [fn |-> "draw", x |-> x, y |-> y, fontSize |-> fs, textWidth |-> w,
                pageWidth |-> pg[1], pageHeight |-> pg[2], threw |-> threw,
                done |-> FALSE, out |-> Null]

\* The backend draws the entry.
ApplyDraw ==
  /\ probe.fn = "draw" /\ ~probe.done
  /\ probe' = [probe EXCEPT
       !.done = TRUE,
       !.out = DrawText(probe.x, probe.y, probe.fontSize, probe.textWidth,
                        probe.pageWidth, probe.pageHeight, probe.threw)]
  /\ UNCHANGED <<uiVars, editVars, finVars>>

NextDraw == ApplyDraw

SpecDraw == InitDraw /\ [][NextDraw]_vars

\* ------------------------------------------------------------------------
\* The font size estimator applied on its own
\* ------------------------------------------------------------------------
ProbeTypes == {"signature", "initials", "name", "text"}
ProbeWidths == {-40, 10, 16, 60, 120, 200, 1000}
ProbeHeights == {-55, 10, 20, 30, 50, 60, 100}
ProbeLengths == {0, 1, 5, 10, 40}

InitFont ==
  /\ InitView
  /\ \E type \in ProbeTypes, width \in ProbeWidths, length \in ProbeLengths,
        height \in ProbeHeights, higher \in ProbeHeights :
       probe = [fn |-> "font", type |-> type, width |-> width, length |-> length,
                height |-> height, higher |-> higher,
                done |-> FALSE, size |-> 0, sizeHigher |-> 0]

\* The estimator is applied to the box, and to the box with the other height.
ApplyFont ==
  /\ probe.fn = "font" /\ ~probe.done
  /\ probe' = [probe EXCEPT
       !.done = TRUE,
       !.size = calculateDynamicFontSize(probe.width, probe.height, probe.type, probe.length),
       !.sizeHigher = calculateDynamicFontSize(probe.width, probe.higher, probe.type,
                                               probe.length)]
  /\ UNCHANGED <<uiVars, editVars, finVars>>

NextFont == ApplyFont

SpecFont == InitFont /\ [][NextFont]_vars

\* ------------------------------------------------------------------------
\* The content normalisation applied on its own
\* ------------------------------------------------------------------------
ProbeChars == {" ", NL, "\t", "a"}
ProbeTexts == UNION {[1..n -> ProbeChars] : n \in 0..MaxTextLen}

InitText ==
  /\ InitView
  /\ \E raw \in ProbeTexts :
       probe = [fn |-> "text", raw |-> raw, done |-> FALSE, once |-> <<>>, twice |-> <<>>]

\* The raw text is normalised, and the result is normalised again.
ApplyText ==
  /\ probe.fn = "text" /\ ~probe.done
  /\ probe' = [probe EXCEPT
       !.done = TRUE,
       !.once = SingleLine(probe.raw),
       !.twice = SingleLine(SingleLine(probe.raw))]
  /\ UNCHANGED <<uiVars, editVars, finVars>>

NextText == ApplyText

SpecText == InitText /\ [][NextText]_vars

\* ------------------------------------------------------------------------
\* Properties
\* ------------------------------------------------------------------------
\* The session state of the specification's state machine
Session ==
  IF navigated THEN "Finalized" ELSE IF finalizing THEN "Finalizing" ELSE "Editing"

InFlight == {i \in 1..Len(calls) : calls[i].pc # "done"}

Contained(f, canvasBounds) ==
  /\ 0 <= f.x /\ 0 <= f.y
  /\ f.x + f.width <= canvasBounds.width
  /\ f.y + f.height <= canvasBounds.height

Geometry(f) == <<f.x, f.y, f.width, f.height>>

\* field i of the new collection was placed, moved or resized by the step
GeometryTouched(i) ==
  \/ i > Len(signatureFields)
  \/ Geometry(signatureFields'[i]) # Geometry(signatureFields[i])

\* C1: a field that a place, move or resize has just produced lies inside the
\* canvas as rendered when the operation ran: 0 <= x, 0 <= y,
\* x + width <= renderedWidth and y + height <= renderedHeight.
C1_Containment ==
  [][(canvasReady /\ Len(signatureFields') >= Len(signatureFields)) =>
        \A i \in 1..Len(signatureFields') :
          GeometryTouched(i) => Contained(signatureFields'[i], getPdfCanvasBounds)]_vars

\* C2: a resize never produces a field narrower than 60 or lower than 20.
C2_MinimumSize ==
  [][resizing # NoId =>
        \A i \in 1..Len(signatureFields') :
          (i <= Len(signatureFields) /\ Geometry(signatureFields'[i]) # Geometry(signatureFields[i]))
            => /\ signatureFields'[i].width >= MinFieldWidth
               /\ signatureFields'[i].height >= MinFieldHeight]_vars

\* C3: a finalize attempt made with no field, or with a field whose content is
\* empty or blank, leaves the session in Editing, starts no call (so sends no
\* request) and leaves the field collection as it was.
C3_BlockedFinalize ==
  [][(/\ SignButtonClick
      /\ \/ Len(signatureFields) = 0
         \/ \E i \in 1..Len(signatureFields) : Incomplete(signatureFields[i]))
       => /\ Session' = "Editing"
          /\ calls' = calls
          /\ signatureFields' = signatureFields]_vars

\* C3 witness: an attempt was refused (its toast is up) with an incomplete field
\* in the collection, the session in Editing and no call started.
C3_Witness ==
  /\ toast = "complete_all"
  /\ Session = "Editing"
  /\ calls = <<>>
  /\ \E i \in 1..Len(signatureFields) : Incomplete(signatureFields[i])

\* C4: while the session is in Finalizing, no event changes the field collection.
C4_NoMutationInFlight ==
  [][Session = "Finalizing" => signatureFields' = signatureFields]_vars

\* C5: at most one finalizeDocument call is in flight at any time.
C5_OneCallInFlight == Cardinality(InFlight) <= 1

\* C5 witness: a call has its request with the backend while the collection
\* would pass every check of a new attempt (fields exist and all are complete).
C5_Witness ==
  /\ Session = "Finalizing"
  /\ \E i \in InFlight : calls[i].net.stage = "request"
  /\ Len(signatureFields) > 0
  /\ \A i \in 1..Len(signatureFields) : ~Incomplete(signatureFields[i])

\* C6: the view is left with success only after an answer with a 2xx status
\* and a body of the shape {success: true, signedFileUrl}.
C6_FinalizedOnlyOnSuccessReply ==
  navigated =>
    \E i \in 1..Len(calls) :
      /\ calls[i].pc = "done"
      /\ calls[i].net.ok
      /\ calls[i].net.body = "success"

\* C7: when a call fails, the session is back in Editing and the field
\* collection is the one the call started with.
C7_FailureRestoresCollection ==
  [][\A i \in InFlight :
       (calls' = RemoveAt(calls, i) /\ toast' = "failed")
         => Session' = "Editing" /\ signatureFields' = calls[i].captured]_vars

\* C8: whenever the session is in Editing with no call running, the backend has
\* neither marked the document as signed nor replaced its file.
C8_NoPartialFinalization ==
  (Session = "Editing" /\ docStatus = "pending" /\ InFlight = {})
    => dbStatus = "pending" /\ dbSignings = 0

HasSnapshot(f) ==
  f.canvasWidth # 0 /\ f.canvasHeight # 0 /\ f.pdfWidth # 0 /\ f.pdfHeight # 0

\* toPdfPoint of the specification, for the viewport stored in the field
ExpectedX(f) == Div(f.x * f.pdfWidth, f.canvasWidth)
ExpectedY(f) == SubFrom(f.pdfHeight, Div(f.y * f.pdfHeight, f.canvasHeight))

\* C9: every entry of a request carries X = x * nativeWidth / renderedWidth and
\* Y = nativeHeight - y * nativeHeight / renderedHeight of its field, exactly,
\* for the viewport stored in the field (every field has one); at 1:1 that is
\* (x, nativeHeight - y).
C9_EmittedPoint ==
  \A i \in 1..Len(calls) :
    calls[i].net.stage = "request" =>
      /\ Len(calls[i].net.signatures) = Len(calls[i].captured)
      /\ \A k \in 1..Len(calls[i].captured) :
           LET f == calls[i].captured[k]
               a == calls[i].net.signatures[k]
           IN  /\ HasSnapshot(f)
               /\ a.x = ExpectedX(f)
               /\ a.y = ExpectedY(f)
               /\ (f.canvasWidth = f.pdfWidth /\ f.canvasHeight = f.pdfHeight)
                    => a.x = Whole(f.x) /\ a.y = Whole(f.pdfHeight - f.y)

\* C9 witness: a request is out for a field placed or dropped away from the
\* origin at a zoom other than 100%, and the zoom has changed since.
C9_Witness ==
  \E i \in 1..Len(calls) :
    /\ calls[i].net.stage = "request"
    /\ \E k \in 1..Len(calls[i].captured) :
         LET f == calls[i].captured[k]
         IN  /\ f.x > 0 /\ f.y > 0
             /\ f.canvasWidth # f.pdfWidth
             /\ canvasReady /\ getPdfCanvasBounds.width # f.canvasWidth

\* C10: converting (k*px, k*py) on a canvas k times as large gives the same
\* point as converting (px, py).
C10_ScaleInvariance ==
  (probe.fn = "transform" /\ probe.done) => probe.zoomed = probe.plain

\* C10 witness: a conversion away from the origin, at a factor other than 1,
\* on a canvas that is not the size of the page.
C10_Witness ==
  /\ probe.fn = "transform" /\ probe.done
  /\ probe.k # 10 /\ probe.px > 0 /\ probe.py > 0
  /\ probe.canvasWidth # probe.pdfWidth

\* the point finalizeDocument would emit for a field
EmittedPoint(f) == [x |-> Annotation(f).x, y |-> Annotation(f).y]

\* the point of a field converted with the viewport as it is now
LivePoint(f) ==
  AbsolutePoint(f.x, f.y, getPdfCanvasBounds.width, getPdfCanvasBounds.height,
                getPdfPageDimensions.width, getPdfPageDimensions.height)

\* C11: the point emitted for a field is the one computed with the viewport in
\* effect at the field's last place, move or resize: right after such an
\* operation it is the conversion with the current viewport, and a later zoom
\* or page change (fields untouched) does not change it.
C11_ZoomAfterEdit ==
  [][/\ (canvasReady /\ Len(signatureFields') >= Len(signatureFields)) =>
          \A i \in 1..Len(signatureFields') :
            GeometryTouched(i) => EmittedPoint(signatureFields'[i]) = LivePoint(signatureFields'[i])
     /\ (signatureFields' = signatureFields /\ uiVars' # uiVars) =>
          \A i \in 1..Len(signatureFields) :
            EmittedPoint(signatureFields[i])' = EmittedPoint(signatureFields[i])]_vars

\* the default box the specification gives each type
PlaceBox(type) ==
  CASE type = "signature" -> <<180, 50>>
    [] type = "initials"  -> <<80, 35>>
    [] type = "name"      -> <<150, 30>>
    [] OTHER              -> <<120, 30>>

\* C12: a placement creates the field with the default box of its type and
\* with its top-left corner inside [0, renderedWidth - width - 10] x
\* [0, renderedHeight - height - 10].
C12_PlaceDefaults ==
  [][Len(signatureFields') = Len(signatureFields) + 1 =>
       LET f == signatureFields'[Len(signatureFields')]
       IN  /\ f.type = placementMode
           /\ <<f.width, f.height>> = PlaceBox(placementMode)
           /\ 0 <= f.x /\ f.x <= getPdfCanvasBounds.width - f.width - 10
           /\ 0 <= f.y /\ f.y <= getPdfCanvasBounds.height - f.height - 10]_vars

\* the point is not on the rendered canvas of the current page
OutsideCanvas(pt) ==
  \/ pt[1] < 0 \/ pt[2] < 0
  \/ pt[1] > getPdfCanvasBounds.width
  \/ pt[2] > getPdfCanvasBounds.height

\* C13: a placement click at a point outside the rendered canvas creates no
\* field, leaves the selection and the placement mode as they were, and shows
\* no error.
C13_OutsideClickIgnored ==
  [][\A pt \in ClickPts, now \in 1..MaxTime :
       (/\ canvasReady /\ placementMode # NoMode
        /\ OutsideCanvas(pt)
        /\ handlePdfClick(pt[1], pt[2], now))
         => /\ signatureFields' = signatureFields
            /\ <<showSignatureModal, selectedField, selectedFieldForEdit>>' =
                 <<showSignatureModal, selectedField, selectedFieldForEdit>>
            /\ placementMode' = placementMode
            /\ toast' = toast]_vars

\* C13 witness: a pending document with its canvas up and a placement mode set,
\* where the user can click and some click lands outside the canvas.
C13_Witness ==
  /\ docStatus = "pending" /\ UserCanAct /\ pdfLoaded /\ canvasReady
  /\ placementMode # NoMode
  /\ Len(signatureFields) < MaxFields
  /\ \E pt \in ClickPts : OutsideCanvas(pt) /\ pt[1] > 0 /\ pt[2] > 0

\* C14: for a fixed type, width and content length, a higher box never gets a
\* smaller font size.
C14_FontMonotone ==
  (probe.fn = "font" /\ probe.done /\ probe.height <= probe.higher)
    => probe.size <= probe.sizeHigher

\* C14 witness: two heights for a box with content, of which the higher gets
\* the larger size.
C14_Witness ==
  /\ probe.fn = "font" /\ probe.done
  /\ probe.height < probe.higher
  /\ probe.length > 0
  /\ probe.size < probe.sizeHigher

\* C15: normalising a normalised content gives the same content.
C15_NormalizeIdempotent ==
  (probe.fn = "text" /\ probe.done) => probe.twice = probe.once

\* C15 witness: a raw text with a line break and a run of white space, whose
\* normalised form differs from it and is not empty.
C15_Witness ==
  /\ probe.fn = "text" /\ probe.done
  /\ probe.once # probe.raw
  /\ Len(probe.once) > 1
  /\ \E i \in 1..Len(probe.raw) : probe.raw[i] = NL
  /\ \E i \in 1..(Len(probe.raw) - 1) : IsSpace(probe.raw[i]) /\ IsSpace(probe.raw[i + 1])

C17_FontSizeIsEstimate ==
  \A i \in 1..Len(signatureFields) :
    LET f == signatureFields[i]
    IN  f.fontSize = calculateDynamicFontSize(f.width, f.height, f.type,
                                              LengthOrDefault(f.content))

\* The estimator as the specification words it, in thousandths of a pixel
Clamp1000(x, lo, hi) == IF x < 1000 * lo THEN 1000 * lo ELSE IF x > 1000 * hi THEN 1000 * hi ELSE x

SpecBase1000(type, height) ==
  IF type = "signature" THEN Clamp1000(700 * height, 12, 36)
  ELSE IF type = "initials" THEN Clamp1000(650 * height, 10, 28)
  ELSE IF type = "name" THEN Clamp1000(600 * height, 8, 24)
  ELSE Clamp1000(550 * height, 8, 20)

\* the nearest integer to n / d (d > 0), a half going up
Nearest(n, d) == CHOOSE r \in -1..((n \div d) + 1) : 2 * d * r <= 2 * n + d /\ 2 * n + d < 2 * d * (r + 1)

SpecFontSize(type, width, height, length) ==
  LET base == SpecBase1000(type, height)
      \* length * base * 0.6 > width - 16
      over == 6 * length * base > 10000 * (width - 16)
  IN  IF ~over THEN Nearest(base, 1000)
      \* max(8, (width - 16) / (length * 0.6)); a length of 0 gives no quotient
      \* above 8
      ELSE IF length = 0 \/ 10 * (width - 16) <= 8 * 6 * length THEN 8
      ELSE Nearest(10 * (width - 16), 6 * length)

\* C18: calculateDynamicFontSize gives the size of the specified algorithm for
\* every type, width, height and content length; a 200x60 signature of 5
\* characters gets 36, and a 60x20 one at most 20.
C18_EstimatorFormula ==
  (probe.fn = "font" /\ probe.done) =>
    /\ probe.size = SpecFontSize(probe.type, probe.width, probe.height, probe.length)
    /\ probe.sizeHigher = SpecFontSize(probe.type, probe.width, probe.higher, probe.length)
    /\ (probe.type = "signature" /\ probe.length = 5 /\ probe.width = 200 /\ probe.height = 60)
         => probe.size = 36
    /\ (probe.type = "signature" /\ probe.length = 5 /\ probe.width = 60 /\ probe.height = 20)
         => probe.size <= 20

\* C18 witness: the 200x60 signature of 5 characters, estimated together with
\* the same box 20 high, where the width limits neither.
C18_Witness ==
  /\ probe.fn = "font" /\ probe.done
  /\ probe.type = "signature" /\ probe.length = 5
  /\ probe.width = 200 /\ probe.height = 60 /\ probe.higher = 20
  /\ probe.size = 36 /\ probe.sizeHigher = 14

\* C19: for every field, the estimated text width, length * fontSize * 0.6, is
\* at most width - 16, the length being that of the content, or 10 when the
\* content is empty.
C19_NoOverflow ==
  \A i \in 1..Len(signatureFields) :
    LET f == signatureFields[i]
    IN  6 * LengthOrDefault(f.content) * f.fontSize <= 10 * (f.width - 16)

\* the viewport stored in the field is the one the page has now
SnapshotIsLive(f) ==
  /\ f.canvasWidth = getPdfCanvasBounds.width
  /\ f.canvasHeight = getPdfCanvasBounds.height
  /\ f.pdfWidth = getPdfPageDimensions.width
  /\ f.pdfHeight = getPdfPageDimensions.height

\* C20: a field that a move or a resize has just changed stores the viewport
\* that was current when the operation ran.
C20_SnapshotFollowsEdit ==
  [][(canvasReady /\ Len(signatureFields') = Len(signatureFields)) =>
        \A i \in 1..Len(signatureFields') :
          GeometryTouched(i) => SnapshotIsLive(signatureFields'[i])]_vars

\* the viewport page p has when it is the page displayed, at the zoom as it is now
ViewportOf(p) ==
  [canvasWidth |-> (PageSize(p).width * scale) \div 10,
   canvasHeight |-> (PageSize(p).height * scale) \div 10,
   pdfWidth |-> PageSize(p).width,
   pdfHeight |-> PageSize(p).height]

OwnSnapshot(f) ==
  [canvasWidth |-> f.canvasWidth, canvasHeight |-> f.canvasHeight,
   pdfWidth |-> f.pdfWidth, pdfHeight |-> f.pdfHeight]

NoSnapshot(f) ==
  f.canvasWidth = 0 /\ f.canvasHeight = 0 /\ f.pdfWidth = 0 /\ f.pdfHeight = 0

SurfaceReady ==
  /\ getPdfCanvasBounds # Null /\ getPdfPageDimensions # Null
  /\ getPdfCanvasBounds.width # 0 /\ getPdfCanvasBounds.height # 0
  /\ getPdfPageDimensions.width # 0 /\ getPdfPageDimensions.height # 0

C23_NoZeroDivisor ==
  (probe.fn = "annotate" /\ probe.done) =>
    /\ probe.viewport.canvasWidth # 0
    /\ probe.viewport.canvasHeight # 0
    /\ IsFinite(probe.out.x)
    /\ IsFinite(probe.out.y)

\* C23 witness: a field away from the origin that stores no rendered size was
\* converted while no canvas was there to be measured.
C23_Witness ==
  /\ probe.fn = "annotate" /\ probe.done
  /\ probe.field.canvasWidth = 0 /\ probe.field.canvasHeight = 0
  /\ probe.field.x > 0 /\ probe.field.y > 0
  /\ probe.viewport.canvasWidth = FallbackWidth
  /\ probe.viewport.canvasHeight = FallbackHeight

\* the positions of the fields of the collection whose id is not `id`
Others(id) == {i \in 1..Len(signatureFields) : signatureFields[i].id # id}

\* the k-th of these positions, in the order of the collection
KthOther(id, k) ==
  CHOOSE i \in Others(id) : Cardinality({j \in Others(id) : j < i}) = k - 1

\* a selection reference is empty or names a field of the collection
SelectionValid ==
  /\ selectedFieldForEdit \in {NoId} \cup Ids(signatureFields)
  /\ selectedField \in {NoId} \cup Ids(signatureFields)

\* C24: after remove(id) no field of the collection has that id and the other
\* fields are there unchanged, in the order they had; and in every state the
\* field selected for edit and the field the signature dialog fills are each
\* empty or the id of a field of the collection.
C24_RemoveAndSelection ==
  /\ []SelectionValid
  /\ [][\A id \in 1..MaxTime :
          removeField(id) =>
            /\ id \notin Ids(signatureFields')
            /\ Len(signatureFields') = Cardinality(Others(id))
            /\ \A k \in 1..Len(signatureFields') :
                 signatureFields'[k] = signatureFields[KthOther(id, k)]]_vars

\* the step keeps the collection's length, leaves the fields whose id is not
\* `id` as they were, and keeps the id, type and page of every field
OnlyTarget(id) ==
  /\ Len(signatureFields') = Len(signatureFields)
  /\ \A i \in 1..Len(signatureFields) :
       /\ signatureFields[i].id # id => signatureFields'[i] = signatureFields[i]
       /\ signatureFields'[i].id = signatureFields[i].id
       /\ signatureFields'[i].type = signatureFields[i].type
       /\ signatureFields'[i].page = signatureFields[i].page

\* C25: a move, a resize, a content change and a signature confirm change
\* only the field with the id they are given, and not its id, type or page; a
\* move leaves width, height, content, font and fontSize as they were, a
\* resize leaves x, y, content and font as they were.
C25_FrameOfEdits ==
  [][/\ \A id \in 1..MaxTime, pt \in ManyInputs.drags :
          handleFieldDrag(id, pt[1], pt[2]) =>
            /\ OnlyTarget(id)
            /\ \A i \in 1..Len(signatureFields) :
                 LET f == signatureFields[i]
                     g == signatureFields'[i]
                 IN  <<g.width, g.height, g.content, g.font, g.fontSize>> =
                       <<f.width, f.height, f.content, f.font, f.fontSize>>
     /\ \A size \in ManyInputs.sizes :
          ResizeMouseMove(size[1], size[2]) =>
            /\ OnlyTarget(resizing)
            /\ \A i \in 1..Len(signatureFields) :
                 LET f == signatureFields[i]
                     g == signatureFields'[i]
                 IN  <<g.x, g.y, g.content, g.font>> = <<f.x, f.y, f.content, f.font>>
     /\ \A id \in 1..MaxTime, content \in ManyInputs.texts :
          updateFieldContent(id, content) => OnlyTarget(id)
     /\ \A name \in ManyInputs.texts, font \in ManyInputs.fonts :
          handleSignatureConfirm(name, font) => OnlyTarget(selectedField)]_vars

\* C25 witness: of two fields with different ids, placed at the same point
\* with the same size, one was moved and resized and the other was not, and a
\* third field was given its content.
C25_Witness ==
  \E i, j, k \in 1..Len(signatureFields) :
    /\ signatureFields[i].id # signatureFields[j].id
    /\ signatureFields[i].type = signatureFields[j].type
    /\ signatureFields[i].x # signatureFields[j].x
    /\ signatureFields[i].width # signatureFields[j].width
    /\ k \notin {i, j}
    /\ signatureFields[k].type # "date" /\ Len(signatureFields[k].content) > 0

\* C26: no two fields of the collection have the same id.
C26_UniqueIds ==
  \A i, j \in 1..Len(signatureFields) :
    signatureFields[i].id = signatureFields[j].id => i = j

\* C27: an event inside a gesture (the gesture is in progress before the event
\* and after it) leaves the collection as it was; only the event that ends
\* the gesture changes a stored field.
C27_OnlyEndPersists ==
  [][(resizing # NoId /\ resizing' # NoId) => signatureFields' = signatureFields]_vars

\* C28: the text the backend draws starts at x >= 10 and 15 <= y <=
\* pageHeight - 15 and ends at x + textWidth <= pageWidth - 10, whatever the
\* point received, the width of the text and the size of the page; and it is
\* drawn at the fontSize received.
C28_DrawnInSafeArea ==
  (probe.fn = "draw" /\ probe.done) =>
    /\ probe.out.x >= 10
    /\ probe.out.y >= 15 /\ probe.out.y <= probe.pageHeight - 15
    /\ probe.out.x + probe.textWidth <= probe.pageWidth - 10
    /\ probe.fontSize # 0 => probe.out.size = probe.fontSize

\* a field with this id is in the collection with no content
EmptyField(id) ==
  \E i \in 1..Len(signatureFields) :
    signatureFields[i].id = id /\ Len(signatureFields[i].content) = 0

\* C29: a field that has no content gets content, whatever its type, when the
\* user keeps doing what gives fields their content and removes nothing.
C29_EveryFieldCompletes ==
  \A id \in 1..MaxTime : EmptyField(id) ~> ~EmptyField(id)

\* lo <= q <= hi for a fraction q and integers lo and hi
Within(q, lo, hi) ==
  IsFinite(q) /\ lo * q[2] <= q[1] /\ q[1] <= hi * q[2]

\* C30: every entry of a request lies on the page of its field, in points:
\* 0 <= x <= nativeWidth and 0 <= y <= nativeHeight of that page.
C30_EmittedOnPage ==
  \A i \in 1..Len(calls) :
    calls[i].net.stage = "request" =>
      \A k \in 1..Len(calls[i].net.signatures) :
        LET a == calls[i].net.signatures[k]
        IN  /\ Within(a.x, 0, PageSize(a.page).width)
            /\ Within(a.y, 0, PageSize(a.page).height)
====
